---- MODULE Spec2Model ----
(***************************************************************************)
(* A model of FileSystemCachePlugin (src/src/file-cache.ts): a cache that  *)
(* keeps one JSON file per key under basePath, with the module-wide        *)
(* request counters and the log of sweeps.                                 *)
(*                                                                         *)
(* Asynchronous calls are processes: between the file operations a call   *)
(* awaits, the steps of other calls may run.  A step is placed at the file *)
(* operation that decides it:                                              *)
(*   set         creates or truncates its file (writeFile's open), then    *)
(*               writes it at offset 0, closes it and returns;             *)
(*   get         stat and readFile see the file at one instant;            *)
(*   invalidate  lists the directory, then for each file reads it          *)
(*               (validateFile) and later decides and deletes it;          *)
(*   flushAll, flushByRegex  hold no await and run in one step.            *)
(*                                                                         *)
(* Quantities the code holds in seconds as floating point numbers          *)
(* (expiresIn, the ttl of a log record) are held here in thousandths of a  *)
(* second, so that the division by 1000 loses nothing.                     *)
(***************************************************************************)
EXTENDS Integers, Sequences, FiniteSets, TLC

\* ------------------------------------------------------------------ bounds
\* Calls (set, get, invalidate, flushAll, flushByRegex) made in one behaviour.
MaxCalls == 3
\* Times the clock advances in one behaviour.
MaxTicks == 1
\* Date.now() at the start, and what one advance of the clock adds (ms).
StartMillis == 5000
TickMillis == 1000

\* ------------------------------------------------------------- JS values
\* null, where the code holds "a number or null".  Clock values, sizes and
\* remaining times are >= 0, so -1 is none of them.
Null == -1

\* A JavaScript value is [t |-> its type, v |-> its JSON text].  The wrapper
\* objects Object() makes of primitives have the types Number, String, Boolean.
JNull == [t |-> "null", v |-> "null"]
JUndefined == [t |-> "undefined", v |-> "undefined"]
JNumber7 == [t |-> "number", v |-> "7"]
JObjectA == [t |-> "object", v |-> "{\"a\":1}"]
JEmptyObject == [t |-> "object", v |-> "{}"]

\* Object(value): null and undefined give a new empty object, a primitive its
\* wrapper object, an object itself.
ObjectOf(value) ==
  CASE value.t \in {"null", "undefined"} -> JEmptyObject
    [] value.t = "number" -> [t |-> "Number", v |-> value.v]
    [] value.t = "string" -> [t |-> "String", v |-> value.v]
    [] value.t = "boolean" -> [t |-> "Boolean", v |-> value.v]
    [] OTHER -> value

\* JSON.stringify(value): the text; a wrapper object is written as its primitive.
JSONStringify(value) == value.v

\* JSON.parse(text) of the text of one value: its type is read off its first
\* character.
JSONParse(text) ==
  LET c == SubSeq(text, 1, 1)
  IN [t |-> CASE c = "{" -> "object"
              [] c = "[" -> "array"
              [] c = "\"" -> "string"
              [] c \in {"t", "f"} -> "boolean"
              [] c = "n" -> "null"
              [] OTHER -> "number",
      v |-> text]

\* x ? a : b and x || 0 on a number or null.
Truthy(x) == x # Null /\ x # 0
OrZero(x) == IF Truthy(x) THEN x ELSE 0
Max(a, b) == IF a >= b THEN a ELSE b

\* ------------------------------------------------------------- the inputs
\* "./acme" is a prefix that path.resolve folds onto "acme".
Prefixes == {"", "acme", "./acme"}
Names == {"n1", "n2"}
Payloads == {JNull, JNumber7, JObjectA}
TTLs == {-1, 0, 1}
\* The engines of the process, all on the same basePath, by the defaultTTL each
\* was constructed with: <<FALSE, 0>> is "not given".
Engines == {<<FALSE, 0>>, <<TRUE, 0>>, <<TRUE, 1>>}
OrgPatterns == {"acme", "hash_"}
\* flushByRegex's second pattern: <<FALSE, "">> is "not given".
RegexPatterns == {<<FALSE, "">>, <<TRUE, "1f">>, <<TRUE, "zzz">>}

\* The calls of set: each argument takes every value of its set while the
\* others keep those of one base call, and a call that gives no ttl is made on
\* every engine.
SetInput(e, p, n, v, g, t) ==
  [engine |-> e, prefix |-> p, name |-> n, payload |-> v, ttlGiven |-> g, ttl |-> t]
SetInputs ==
  {SetInput(<<FALSE, 0>>, p, n, JObjectA, TRUE, 1) : p \in Prefixes, n \in Names}
    \cup {SetInput(<<FALSE, 0>>, "acme", "n1", v, TRUE, 1) : v \in Payloads}
    \cup {SetInput(<<FALSE, 0>>, "acme", "n1", JObjectA, TRUE, t) : t \in TTLs}
    \cup {SetInput(e, "acme", "n1", JObjectA, FALSE, 0) : e \in Engines}

SetSlots == {1, 2}
SweepSlots == {1, 2}

\* createHash('sha256').update(fileName).digest('hex'): a text of hexadecimal
\* digits, different for different names.
Sha256Hex(fileName) == IF fileName = "n1" THEN "1f0a" ELSE "2e9b"

\* formatFileName
formatFileName(fileNamePrefix, fileName) ==
  (IF fileNamePrefix # "" THEN fileNamePrefix \o " hash_" ELSE "hash_")
    \o Sha256Hex(fileName)

\* path.resolve(basePath, FILE_NAME), as the name of the file under basePath:
\* the path is normalised, so a leading "." segment of FILE_NAME is dropped.
\* (The FILE_NAMEs of the model hold no other separator.)
RECURSIVE PathResolve(_)
PathResolve(name) ==
  IF Len(name) >= 2 /\ SubSeq(name, 1, 2) = "./"
  THEN PathResolve(SubSeq(name, 3, Len(name)))
  ELSE name

\* The names the files of basePath can have.
FileNames == {PathResolve(formatFileName(p, n)) : p \in Prefixes, n \in Names}

\* The order in which readdirSync lists the directory.
DirOrder ==
  << formatFileName("acme", "n1"), formatFileName("acme", "n2"),
     formatFileName("", "n1"), formatFileName("", "n2") >>

\* -------------------------------------------------------------- the files
\* What a name of the directory holds: nothing, a file of no bytes (created or
\* truncated and not written yet), the text of one entry, or the text of an
\* entry followed by what is left of a longer one.
NoFile == [kind |-> "none", payload |-> "", ttl |-> 0, expiration |-> Null, size |-> 0]
EmptyFile == [kind |-> "empty", payload |-> "", ttl |-> 0, expiration |-> Null, size |-> 0]
Garbled(n) == [kind |-> "garbled", payload |-> "", ttl |-> 0, expiration |-> Null, size |-> n]

\* JSON.stringify(data) of set's data object.
EntryText(payloadText, ttl, expiration) ==
  "{\"payload\":" \o payloadText \o ",\"ttl\":" \o ToString(ttl) \o ",\"expiration\":"
    \o (IF expiration = Null THEN "null" ELSE ToString(expiration)) \o "}"

Entry(payloadText, ttl, expiration) ==
  [kind |-> "json", payload |-> payloadText, ttl |-> ttl, expiration |-> expiration,
   size |-> Len(EntryText(payloadText, ttl, expiration))]

\* set's expiration: FILE_TTL ? Date.now() + FILE_TTL : null
Expiration(fileTtl, t) == IF Truthy(fileTtl) THEN t + fileTtl ELSE Null

\* set's data object, as written.
SetData(payload, ttl, t) ==
  Entry(JSONStringify(ObjectOf(payload)), ttl * 1000, Expiration(ttl * 1000, t))

\* A write of text at offset 0 of a file: bytes of a longer text stay behind it.
WriteOver(old, new) == IF new.size >= old.size THEN new ELSE Garbled(old.size)

\* A literal pattern (no special character) matches the names that hold it.
RegexMatch(file, pattern) ==
  \E i \in 1..(Len(file) - Len(pattern) + 1) : SubSeq(file, i, i + Len(pattern) - 1) = pattern

VARIABLES
  now,            \* Date.now()
  ticks,          \* times the clock has advanced
  dirExists,      \* basePath is a directory
  disk,           \* what each name of basePath holds
  sets,           \* the set calls in flight
  invs,           \* the invalidate calls in flight
  invalidateCount,     \* GLOBAL_ENDPOINT_INVALIDATE_REQUEST_COUNT
  deleteCount,         \* GLOBAL_ENDPOINT_DELETE_REQUEST_COUNT
  deleteByRegexCount,  \* GLOBAL_ENDPOINT_DELETE_BY_REGEX_REQUEST_COUNT
  logsOverTime,        \* GLOBAL_LOGS_OVER_TIME
  calls,          \* calls made so far
  ret             \* the call the last step ended, and how: NoRet if it ended none

vars == << now, ticks, dirExists, disk, sets, invs, invalidateCount, deleteCount,
           deleteByRegexCount, logsOverTime, calls, ret >>

NoRet == [op |-> "none"]

\* constructor: this.defaultTTL = defaultTTL || 60
Constructor(given, value) == IF given /\ Truthy(value) THEN value ELSE 60

\* readdirSync(basePath)
ReaddirSync(d) == SelectSeq(DirOrder, LAMBDA f : d[f].kind # "none")

\* unlinkSync of the names in S.
Unlink(d, S) == [f \in FileNames |-> IF f \in S THEN NoFile ELSE d[f]]

\* ------------------------------------------------------------------- set
IdleSet == [pc |-> "idle", file |-> "", input |-> SetInput(<<FALSE, 0>>, "", "", JNull, FALSE, 0),
            at |-> 0, data |-> NoFile, fd |-> "none", alone |-> TRUE]

\* A file a set call holds open and that is unlinked is gone from the directory:
\* what the call writes to it is never seen.
Orphaned(ss, S) ==
  [s \in SetSlots |->
     IF ss[s].fd = "open" /\ ss[s].file \in S THEN [ss[s] EXCEPT !.fd = "orphan"] ELSE ss[s]]

\* A file operation of slot s on f: the other set calls that hold f open no
\* longer write it alone.
Disturbed(ss, s, f) ==
  [o \in SetSlots |->
     IF o # s /\ ss[o].fd = "open" /\ ss[o].file = f
     THEN [ss[o] EXCEPT !.alone = FALSE] ELSE ss[o]]

\* set, to writeFile's open: FILE_TTL, FILE_NAME, mkdir, the data object, and
\* the file created or truncated (flag 'w').
SetCall(s, a) ==
  /\ calls < MaxCalls
  /\ sets[s].pc = "idle"
  /\ \A o \in SetSlots : o < s => sets[o].pc # "idle"
  /\ LET ttl == IF a.ttlGiven THEN a.ttl ELSE Constructor(a.engine[1], a.engine[2])
         f == PathResolve(formatFileName(a.prefix, a.name))
     IN /\ sets' = [Disturbed(sets, s, f) EXCEPT ![s] =
                      [pc |-> "write", file |-> f, input |-> a, at |-> now,
                       data |-> SetData(a.payload, ttl, now), fd |-> "open",
                       alone |-> \A o \in SetSlots : sets[o].fd = "open" => sets[o].file # f]]
        /\ disk' = [disk EXCEPT ![f] = EmptyFile]
  /\ dirExists' = TRUE
  /\ calls' = calls + 1
  /\ ret' = NoRet
  /\ UNCHANGED << now, ticks, invs, invalidateCount, deleteCount, deleteByRegexCount,
                  logsOverTime >>

\* writeFile's write at offset 0 of the file that was opened, its close, and
\* set's return of filePath.
SetWrite(s) ==
  /\ sets[s].pc = "write"
  /\ disk' = IF sets[s].fd = "open"
             THEN [disk EXCEPT ![sets[s].file] = WriteOver(@, sets[s].data)]
             ELSE disk
  /\ ret' = [op |-> "set", file |-> sets[s].file, input |-> sets[s].input,
             at |-> sets[s].at, data |-> sets[s].data,
             linked |-> sets[s].fd = "open", alone |-> sets[s].alone]
  /\ sets' = [Disturbed(sets, s, sets[s].file) EXCEPT ![s] = IdleSet]
  /\ UNCHANGED << now, ticks, dirExists, invs, invalidateCount, deleteCount,
                  deleteByRegexCount, logsOverTime, calls >>

\* ------------------------------------------------------------------- get
\* What stat, readFile and JSON.parse make of a file, and what get then does:
\* it returns data.payload, or throws what they threw.
GetRead(c) ==
  CASE c.kind = "none" -> [outcome |-> "ENOENT", value |-> JUndefined]
    [] c.kind = "json" -> [outcome |-> "ok", value |-> JSONParse(c.payload)]
    [] OTHER -> [outcome |-> "SyntaxError", value |-> JUndefined]

\* A changed GetResult: get treats an entry past its expiration as absent.
GetResultLazy(c, t) ==
  IF c.kind = "json" /\ c.expiration # Null /\ c.expiration <= t
  THEN [outcome |-> "ENOENT", value |-> JUndefined]
  ELSE GetRead(c)

\* get of a file at time t: data.expiration and Date.now() are never looked at.
GetResult(c, t) == GetRead(c)

Get(fileNamePrefix, fileName) ==
  /\ calls < MaxCalls
  /\ calls' = calls + 1
  /\ LET f == PathResolve(formatFileName(fileNamePrefix, fileName))
         r == GetResult(disk[f], now)
     IN ret' = [op |-> "get", file |-> f, outcome |-> r.outcome, value |-> r.value]
  /\ UNCHANGED << now, ticks, dirExists, disk, sets, invs, invalidateCount, deleteCount,
                  deleteByRegexCount, logsOverTime >>

\* ------------------------------------------------------------ invalidate
IdleInv == [pc |-> "idle", files |-> << >>, size |-> 0, seen |-> NoFile, at |-> 0,
            logs |-> << >>, audit |-> << >>, filesInvalidated |-> 0, totalSize |-> 0]

\* A changed ValidateFile: Math.min where the code has Math.max.
ValidateFileMin(c, t) ==
  IF c.kind = "json"
  THEN [defined |-> TRUE, ttl |-> c.ttl,
        expiresIn |-> IF Truthy(c.expiration)
                      THEN (IF c.expiration - t <= 0 THEN c.expiration - t ELSE 0)
                      ELSE Null]
  ELSE [defined |-> FALSE, ttl |-> 0, expiresIn |-> 0]

\* validateFile on what it read at time t: undefined when stat, readFile or
\* JSON.parse threw.
ValidateFile(c, t) ==
  IF c.kind = "json"
  THEN [defined |-> TRUE, ttl |-> c.ttl,
        expiresIn |-> IF Truthy(c.expiration) THEN Max(0, c.expiration - t) ELSE Null]
  ELSE [defined |-> FALSE, ttl |-> 0, expiresIn |-> 0]

\* (await this.validateFile(file)) || { ttl: 0, expiresIn: 0 }
OrDefault(v) == IF v.defined THEN v ELSE [defined |-> TRUE, ttl |-> 0, expiresIn |-> 0]

\* A changed IsInvalid: an entry at its expiration time is still valid.
IsInvalidStrict(expiresIn) == OrZero(expiresIn) < 0

\* const invalid = (expiresIn || 0) <= 0
IsInvalid(expiresIn) == OrZero(expiresIn) <= 0

\* The counter as invalidate leaves it: incremented once the directory is listed.
InvalidateCounted(count, listed) == IF listed THEN count + 1 ELSE count

\* A changed Pushed: the log keeps the newest snapshot only.
PushedPruned(log, snapshot) == << snapshot >>

\* GLOBAL_LOGS_OVER_TIME.push(snapshot)
Pushed(log, snapshot) == Append(log, snapshot)

\* invalidate past its loops: the snapshot pushed, the result returned.  Every
\* throw of the loops is caught by one of the two empty catch blocks, and no
\* statement after them throws.
InvReturn(s, count, listed, files, logs, audit, filesInvalidated, totalSize) ==
  /\ logsOverTime' = Pushed(logsOverTime,
                            [id |-> now, bytes |-> totalSize,
                             endpointInvalidateRequestCount |-> count,
                             endpointDeleteRequestCount |-> deleteCount,
                             endpointDeleteByRegexRequestCount |-> deleteByRegexCount])
  /\ ret' = [op |-> "invalidate", outcome |-> "returns", slot |-> s, listed |-> listed,
             files |-> files,
             endpointInvalidateRequestCount |-> count,
             filesInvalidated |-> filesInvalidated, bytes |-> totalSize,
             logs |-> logs, audit |-> audit]
  /\ invs' = [invs EXCEPT ![s] = IdleInv]

\* invalidate, to its first await: readdirSync (a throw ends the call's loops),
\* the counter, statSync of the first file.
InvCall(s) ==
  /\ calls < MaxCalls
  /\ invs[s].pc = "idle"
  /\ \A o \in SweepSlots : o < s => invs[o].pc # "idle"
  /\ calls' = calls + 1
  /\ invalidateCount' = InvalidateCounted(invalidateCount, dirExists)
  /\ LET files == IF dirExists THEN ReaddirSync(disk) ELSE << >>
     IN IF files = << >>
        THEN InvReturn(s, invalidateCount', dirExists, files, << >>, << >>, 0, 0)
        ELSE /\ invs' = [invs EXCEPT ![s] =
                           [IdleInv EXCEPT !.pc = "inspect", !.files = files,
                                           !.size = disk[files[1]].size]]
             /\ ret' = NoRet
             /\ UNCHANGED logsOverTime
  /\ UNCHANGED << now, ticks, dirExists, disk, sets, deleteCount, deleteByRegexCount >>

\* A changed NextFile: the loop takes its file from the directory as it is now,
\* the first one it has not treated yet.
NextFileRelisted(c, d) ==
  LET fresh == SelectSeq(ReaddirSync(d),
                         LAMBDA f : \A i \in 1..Len(c.audit) : c.audit[i].file # f)
  IN IF fresh # << >> THEN fresh[1] ELSE c.files[Len(c.audit) + 1]

\* for (const file of files): the file of the current iteration is taken from
\* the listing made at the start, whatever the directory d holds by now.
NextFile(c, d) == c.files[Len(c.audit) + 1]

\* validateFile reads the file.
InvInspect(s) ==
  /\ invs[s].pc = "inspect"
  /\ invs' = [invs EXCEPT ![s].pc = "delete",
                          ![s].seen = disk[NextFile(invs[s], disk)],
                          ![s].at = now]
  /\ ret' = NoRet
  /\ UNCHANGED << now, ticks, dirExists, disk, sets, invalidateCount, deleteCount,
                  deleteByRegexCount, logsOverTime, calls >>

\* A changed Invalidated: filesInvalidated++ stands before unlinkSync.
InvalidatedBeforeUnlink(count, invalid, threw) == IF invalid THEN count + 1 ELSE count

\* filesInvalidated after an iteration: filesInvalidated++ follows unlinkSync
\* inside the inner try, so a throwing unlinkSync skips it.
Invalidated(count, invalid, threw) == IF invalid /\ ~threw THEN count + 1 ELSE count

\* invalidate from validateFile's result to the next await or the return: the
\* log record, the sizes, unlinkSync of an invalid file (fault: it throws for a
\* file that is there), then statSync of the next file (a throw ends the loop).
InvDelete(s, fault) ==
  /\ invs[s].pc = "delete"
  /\ LET c == invs[s]
         f == NextFile(c, disk)
         v == OrDefault(ValidateFile(c.seen, c.at))
         invalid == IsInvalid(v.expiresIn)
         threw == invalid /\ (disk[f].kind = "none" \/ fault)
         unlinked == invalid /\ ~threw
         logs == IF threw THEN c.logs
                 ELSE Append(c.logs, [file |-> f, ttl |-> v.ttl, diff |-> OrZero(v.expiresIn),
                                      size |-> c.size, valid |-> ~invalid])
         audit == Append(c.audit, [file |-> f, seen |-> c.seen, at |-> c.at,
                                   unlinked |-> unlinked, threw |-> threw])
         filesInvalidated == Invalidated(c.filesInvalidated, invalid, threw)
         totalSize == c.totalSize + c.size
         d == IF unlinked THEN Unlink(disk, {f}) ELSE disk
     IN /\ fault => invalid /\ disk[f].kind # "none"
        /\ disk' = d
        /\ sets' = IF unlinked THEN Orphaned(sets, {f}) ELSE sets
        /\ IF Len(audit) < Len(c.files) /\ d[c.files[Len(audit) + 1]].kind # "none"
           THEN /\ invs' = [invs EXCEPT ![s] =
                              [c EXCEPT !.pc = "inspect", !.logs = logs, !.audit = audit,
                                        !.filesInvalidated = filesInvalidated,
                                        !.totalSize = totalSize,
                                        !.size = d[c.files[Len(audit) + 1]].size]]
                /\ ret' = NoRet
                /\ UNCHANGED logsOverTime
           ELSE InvReturn(s, invalidateCount, TRUE, c.files, logs, audit,
                          filesInvalidated, totalSize)
  /\ UNCHANGED << now, ticks, dirExists, invalidateCount, deleteCount, deleteByRegexCount,
                  calls >>

\* ---------------------------------------------------------------- flushes
\* A changed Caught: the catch throws the error again, as set's does.
Rethrown(threw) == IF threw THEN "throws" ELSE "returns"

\* What a flush does when its try block threw: the catch logs the error and the
\* call returns undefined.
Caught(threw) == IF threw THEN "undefined" ELSE "returns"

\* A changed Deleted: the loop stops one file short.
DeletedButLast(files, k) ==
  {files[i] : i \in 1..(IF k = 0 THEN Len(files) - 1 ELSE k - 1)}

\* The files unlinked of those to delete, in order, when unlinkSync throws at
\* the k-th of them (k = 0: it never throws).
Deleted(files, k) == {files[i] : i \in 1..(IF k = 0 THEN Len(files) ELSE k - 1)}

\* flushAll; unlinkSync throws at the k-th file (k = 0: it never throws).
FlushAll(k) ==
  /\ calls < MaxCalls
  /\ calls' = calls + 1
  /\ deleteCount' = deleteCount + 1
  /\ LET files == IF dirExists THEN ReaddirSync(disk) ELSE << >>
         gone == Deleted(files, k)
     IN /\ k <= Len(files)
        /\ disk' = Unlink(disk, gone)
        /\ sets' = Orphaned(sets, gone)
        /\ ret' = [op |-> "flushAll", outcome |-> Caught(~dirExists \/ k > 0),
                   listed |-> dirExists, files |-> files, failedAt |-> k,
                   endpointDeleteRequestCount |-> deleteCount',
                   deleted |-> Len(files)]
  /\ UNCHANGED << now, ticks, dirExists, invs, invalidateCount, deleteByRegexCount,
                  logsOverTime >>

\* A changed FlushMatches: either pattern is enough.
FlushMatchesEither(file, org, regex) == RegexMatch(file, org) \/ RegexMatch(file, regex)

\* file.match(org) && file.match(regex)
FlushMatches(file, org, regex) == RegexMatch(file, org) /\ RegexMatch(file, regex)

\* A changed RegexCounted: incremented after the directory is listed, as
\* invalidate's counter is.
RegexCountedAfterListing(count, listed) == IF listed THEN count + 1 ELSE count

\* The pattern-flush counter as flushByRegex leaves it: incremented first.
RegexCounted(count, listed) == count + 1

\* flushByRegex; unlinkSync throws at the k-th file to delete (k = 0: never).
FlushByRegex(org, regexGiven, regexArg, k) ==
  /\ calls < MaxCalls
  /\ calls' = calls + 1
  /\ deleteByRegexCount' = RegexCounted(deleteByRegexCount, dirExists)
  /\ LET regex == IF regexGiven THEN regexArg ELSE ""
         files == IF dirExists THEN ReaddirSync(disk) ELSE << >>
         targets == SelectSeq(files, LAMBDA f : FlushMatches(f, org, regex))
         gone == Deleted(targets, k)
     IN /\ k <= Len(targets)
        /\ disk' = Unlink(disk, gone)
        /\ sets' = Orphaned(sets, gone)
        /\ ret' = [op |-> "flushByRegex", outcome |-> Caught(~dirExists \/ k > 0),
                   listed |-> dirExists, files |-> files, org |-> org,
                   regexGiven |-> regexGiven, regex |-> regex, failedAt |-> k,
                   endpointDeleteRequestByRegexCount |-> deleteByRegexCount',
                   deleted |-> Cardinality(gone)]
  /\ UNCHANGED << now, ticks, dirExists, invs, invalidateCount, deleteCount,
                  logsOverTime >>

\* ----------------------------------------------------------------- clock
Tick ==
  /\ ticks < MaxTicks
  /\ ticks' = ticks + 1
  /\ now' = now + TickMillis
  /\ ret' = NoRet
  /\ UNCHANGED << dirExists, disk, sets, invs, invalidateCount, deleteCount,
                  deleteByRegexCount, logsOverTime, calls >>

Init ==
  /\ now = StartMillis
  /\ ticks = 0
  /\ dirExists = FALSE
  /\ disk = [f \in FileNames |-> NoFile]
  /\ sets = [s \in SetSlots |-> IdleSet]
  /\ invs = [s \in SweepSlots |-> IdleInv]
  /\ invalidateCount = 0
  /\ deleteCount = 0
  /\ deleteByRegexCount = 0
  /\ logsOverTime = << >>
  /\ calls = 0
  /\ ret = NoRet

Next ==
  \/ \E s \in SetSlots, a \in SetInputs : SetCall(s, a)
  \/ \E s \in SetSlots : SetWrite(s)
  \/ \E p \in Prefixes, n \in Names : Get(p, n)
  \/ \E s \in SweepSlots : InvCall(s)
  \/ \E s \in SweepSlots : InvInspect(s)
  \/ \E s \in SweepSlots, fault \in BOOLEAN : InvDelete(s, fault)
  \/ \E k \in 0..Cardinality(FileNames) : FlushAll(k)
  \/ \E org \in OrgPatterns, r \in RegexPatterns, k \in 0..Cardinality(FileNames) :
       FlushByRegex(org, r[1], r[2], k)
  \/ Tick

Spec == Init /\ [][Next]_vars

\* ================================================================ claims
Existing(d) == {f \in FileNames : d[f].kind # "none"}

\* An entry past its expiration time at time t.
Expired(c, t) == c.kind = "json" /\ c.expiration # Null /\ c.expiration <= t

\* A file whose content JSON.parse rejects.
Corrupt(c) == c.kind \in {"empty", "garbled"}

\* ---- C1
\* C1: an entry stored with expiration = null (set with ttl = 0) is never
\* deleted by a sweep: of the files a sweep read, it unlinked none whose entry
\* has no expiration time.
C1_NoExpiryNeverSwept ==
  ret.op = "invalidate" =>
    \A i \in 1..Len(ret.audit) :
      (ret.audit[i].seen.kind = "json" /\ ret.audit[i].seen.expiration = Null)
        => (~ret.audit[i].unlinked /\ disk[ret.audit[i].file].kind # "none")

\* ---- C2
\* C2: round trip: when set has returned, having written its file alone, a get
\* of the same prefix and name returns a payload equal to the one stored.
C2_RoundTrip ==
  (ret.op = "set" /\ ret.linked /\ ret.alone) =>
    GetRead(disk[ret.file]) = [outcome |-> "ok", value |-> ret.input.payload]

\* ---- C3
\* C3: a file the sweep cannot parse is skipped (not deleted) and the sweep goes
\* on: every listed file is inspected, and each other entry is deleted exactly
\* when it is expired.
C3_CorruptEntrySkipped ==
  ret.op = "invalidate" =>
    \A i \in 1..Len(ret.audit) :
      Corrupt(ret.audit[i].seen) =>
        /\ ~ret.audit[i].unlinked
        /\ Len(ret.audit) = Len(ret.files)
        /\ \A j \in 1..Len(ret.audit) :
             ret.audit[j].seen.kind = "json" =>
               (ret.audit[j].unlinked <=> Expired(ret.audit[j].seen, ret.audit[j].at))

\* ---- C4
\* The sweep listed one file, read in it an entry of ttl t > 0 written at least
\* t seconds before, and its unlinkSync did not throw.
C4_Case ==
  /\ ret.op = "invalidate"
  /\ Len(ret.files) = 1
  /\ Len(ret.audit) = 1
  /\ ret.audit[1].seen.kind = "json"
  /\ ret.audit[1].seen.ttl > 0
  /\ ret.audit[1].seen.expiration # Null
  /\ ret.audit[1].at - (ret.audit[1].seen.expiration - ret.audit[1].seen.ttl)
       >= ret.audit[1].seen.ttl
  /\ ~ret.audit[1].threw

\* C4: a sweep of a store that holds one entry, written with ttl = t > 0 at
\* least t seconds before, deletes it and reports filesInvalidated = 1; a get of
\* its key then fails with not-found.
C4_ExpiredEntrySwept ==
  C4_Case =>
    /\ ret.filesInvalidated = 1
    /\ ret.audit[1].unlinked
    /\ disk[ret.audit[1].file].kind = "none"
    /\ GetRead(disk[ret.audit[1].file]).outcome = "ENOENT"

C4_Witness ==
  /\ C4_Case
  /\ ticks >= 1
  /\ ret.audit[1].seen.ttl = 1000
  /\ ret.filesInvalidated = 1
  /\ Existing(disk) = {}

\* ---- C5
\* This step is the call of invalidate in slot s.
SweepCalled(s) ==
  /\ invs[s].pc = "idle"
  /\ invs'[s].pc # "idle" \/ (ret'.op = "invalidate" /\ ret'.slot = s)

\* C5: every sweep invocation, in any store state, adds exactly one to the
\* sweep counter and exactly one snapshot to the log.
C5_SweepCountsAndLogsOnce ==
  [][/\ \A s \in SweepSlots : SweepCalled(s) => invalidateCount' = invalidateCount + 1
     /\ (\A s \in SweepSlots : ~SweepCalled(s)) => invalidateCount' = invalidateCount
     /\ Len(logsOverTime') =
          Len(logsOverTime) + (IF ret'.op = "invalidate" THEN 1 ELSE 0)]_vars

\* ---- C6
\* C6: a flushAll that returns a result has deleted every file of the store,
\* whatever its TTL state, returns deleted = their number N, and has added one
\* to the full-flush counter; a get of any key then fails with not-found.
C6_FlushAllDeletesAll ==
  [][(ret'.op = "flushAll" /\ ret'.outcome = "returns") =>
       /\ ret'.deleted = Cardinality(Existing(disk))
       /\ \A f \in FileNames :
            disk'[f].kind = "none" /\ GetRead(disk'[f]).outcome = "ENOENT"
       /\ deleteCount' = deleteCount + 1
       /\ ret'.endpointDeleteRequestCount = deleteCount + 1]_vars

C6_Witness ==
  /\ \A s \in SetSlots : sets[s].pc = "idle"
  /\ ret.op = "flushAll"
  /\ ret.outcome = "returns"
  /\ ret.deleted = 2
  /\ Existing(disk) = {}
  /\ deleteCount = 1

C8_FlushByRegexDeletesMatching ==
  [][(ret'.op = "flushByRegex" /\ ret'.outcome = "returns") =>
       /\ \A f \in FileNames :
            IF f \in Existing(disk) /\ RegexMatch(f, ret'.org) /\ RegexMatch(f, ret'.regex)
            THEN disk'[f].kind = "none"
            ELSE disk'[f] = disk[f]
       /\ ret'.deleted =
            Cardinality({f \in Existing(disk) :
                           RegexMatch(f, ret'.org) /\ RegexMatch(f, ret'.regex)})
       /\ ~ret'.regexGiven =>
            /\ ret'.regex = ""
            /\ \A f \in FileNames : RegexMatch(f, ret'.regex)
            /\ \A f \in Existing(disk) : RegexMatch(f, ret'.org) => disk'[f].kind = "none"]_vars

C8_Witness ==
  /\ \A s \in SetSlots : sets[s].pc = "idle"
  /\ ret.op = "flushByRegex"
  /\ ret.outcome = "returns"
  /\ ret.regexGiven
  /\ ret.deleted = 1
  /\ Len(ret.files) = 2
  /\ \E f \in Existing(disk) : RegexMatch(f, ret.org) /\ ~RegexMatch(f, ret.regex)

\* ---- C9
\* C9: when the listing or a deletion fails in flushByRegex, the call does not
\* throw, returns undefined, and the pattern-flush counter is incremented by one
\* all the same.
C9_FlushByRegexSwallowsFailure ==
  [][(ret'.op = "flushByRegex" /\ (~ret'.listed \/ ret'.failedAt > 0)) =>
       /\ ret'.outcome = "undefined"
       /\ deleteByRegexCount' = deleteByRegexCount + 1
       /\ ret'.endpointDeleteRequestByRegexCount = deleteByRegexCount + 1]_vars

C9_Witness ==
  /\ \A s \in SetSlots : sets[s].pc = "idle"
  /\ ret.op = "flushByRegex"
  /\ ret.listed
  /\ ret.failedAt = 2
  /\ ret.outcome = "undefined"
  /\ deleteByRegexCount = 1

\* ---- C10
\* C10: when a set returns and no other set of the same key is in flight, the
\* store holds for the key exactly the entry this set wrote, and get returns its
\* payload.
C10_LastCompletedWriteWins ==
  (/\ ret.op = "set"
   /\ ret.linked
   /\ \A s \in SetSlots : sets[s].pc # "idle" => sets[s].file # ret.file) =>
    /\ disk[ret.file] = ret.data
    /\ GetRead(disk[ret.file]) = [outcome |-> "ok", value |-> JSONParse(ret.data.payload)]

\* ---- C11
\* This step is a step of a set call on file f: its open, or its write and close.
SetStepOn(f) ==
  \E s \in SetSlots :
    \/ sets[s].pc = "idle" /\ sets'[s].pc = "write" /\ sets'[s].file = f
    \/ sets[s].pc = "write" /\ sets'[s].pc = "idle" /\ sets[s].file = f

\* This step is a sweep's decision on file f (where it unlinks an invalid file).
SweepDecides(f) ==
  \E s \in SweepSlots :
    /\ invs[s].pc = "delete"
    /\ invs'[s] # invs[s]
    /\ invs[s].files[Len(invs[s].audit) + 1] = f

\* C11: get never checks TTL: a get of a file that holds an entry, its
\* expiration time passed or not, returns the payload the file holds and
\* changes nothing; and the entry a file holds is changed or removed only by a
\* sweep, a flush or a set of the same key that replaces it, never by the clock
\* or by a get.
C11_GetIgnoresTTL ==
  [][/\ (ret'.op = "get" /\ disk[ret'.file].kind = "json") =>
          /\ ret'.outcome = "ok"
          /\ ret'.value = JSONParse(disk[ret'.file].payload)
          /\ disk' = disk
     /\ \A f \in FileNames :
          (disk[f].kind = "json" /\ disk'[f] # disk[f]) =>
            \/ SweepDecides(f)
            \/ ret'.op \in {"flushAll", "flushByRegex"}
            \/ SetStepOn(f)]_vars

C11_Witness ==
  /\ ret.op = "get"
  /\ ret.outcome = "ok"
  /\ ret.value = JObjectA
  /\ ticks >= 1
  /\ Expired(disk[ret.file], now)
  /\ \A s \in SetSlots : sets[s].pc = "idle"

\* ---- C12
\* The file get reads for a pair.
FileOf(fileNamePrefix, fileName) == PathResolve(formatFileName(fileNamePrefix, fileName))

\* C12: two different prefixes with the same name map to different file names,
\* and so no step of a set under (p1, n), its open or its write, changes what a
\* get under (p2, n) returns, for p1 # p2.
C12_KeysKeptApart ==
  [][/\ \A p1 \in Prefixes, p2 \in Prefixes, n \in Names :
          p1 # p2 => formatFileName(p1, n) # formatFileName(p2, n)
     /\ \A s \in SetSlots, p2 \in Prefixes :
          LET a == IF sets[s].pc = "idle" THEN sets'[s].input ELSE sets[s].input
          IN (sets'[s].pc # sets[s].pc /\ p2 # a.prefix) =>
               GetRead(disk'[FileOf(p2, a.name)]) = GetRead(disk[FileOf(p2, a.name)])]_vars

\* ---- C13
\* C13: when a set given ttl (any integer number of seconds) returns, having
\* written its file alone, the entry in the file has ttl = ttl * 1000, and
\* expiration = write time + ttl * 1000 when ttl * 1000 > 0, null otherwise.
C13_EntryInvariant ==
  (ret.op = "set" /\ ret.input.ttlGiven /\ ret.linked /\ ret.alone) =>
    /\ disk[ret.file].kind = "json"
    /\ disk[ret.file].ttl = ret.input.ttl * 1000
    /\ disk[ret.file].expiration =
         (IF ret.input.ttl * 1000 > 0 THEN ret.at + ret.input.ttl * 1000 ELSE Null)

\* ---- C14
\* C14: in every step of every call, none of the three counters decreases, and
\* the log is append-only: the snapshots it held are still there, in place and
\* unchanged, and its length changes only by one, in the step where a sweep
\* returns.
C14_CountersAndLogMonotone ==
  [][/\ invalidateCount' >= invalidateCount
     /\ deleteCount' >= deleteCount
     /\ deleteByRegexCount' >= deleteByRegexCount
     /\ Len(logsOverTime') >= Len(logsOverTime)
     /\ SubSeq(logsOverTime', 1, Len(logsOverTime)) = logsOverTime
     /\ logsOverTime' # logsOverTime =>
          (Len(logsOverTime') = Len(logsOverTime) + 1 /\ ret'.op = "invalidate")]_vars

C14_Witness ==
  /\ Len(logsOverTime) = 2
  /\ logsOverTime[1].endpointDeleteRequestCount = 0
  /\ logsOverTime[2].endpointDeleteRequestCount = 1
  /\ ret.op = "invalidate"

\* ---- C15
\* An entry written with ttl > 0 whose expiration time is still ahead at time t.
Unexpired(c, t) == c.kind = "json" /\ c.ttl > 0 /\ c.expiration # Null /\ c.expiration > t

\* The files a sweep removed, by its audit.
Removed(audit) == {i \in 1..Len(audit) : audit[i].unlinked}

\* C15: a sweep that reads in a file an entry written with ttl > 0 and not yet
\* expired does not delete the file: the step that decides on it changes no
\* file, so a get still reads the entry; and when the sweep returns, its logs
\* report the file as valid and filesInvalidated does not count it.
C15_UnexpiredEntryKept ==
  [][/\ \A s \in SweepSlots :
          (invs[s].pc = "delete" /\ invs'[s] # invs[s] /\ Unexpired(invs[s].seen, invs[s].at)) =>
            LET f == invs[s].files[Len(invs[s].audit) + 1]
            IN /\ disk' = disk
               /\ disk[f] = invs[s].seen =>
                    GetRead(disk'[f]) = [outcome |-> "ok", value |-> JSONParse(invs[s].seen.payload)]
     /\ ret'.op = "invalidate" =>
          /\ \A i \in 1..Len(ret'.audit) :
               Unexpired(ret'.audit[i].seen, ret'.audit[i].at) =>
                 /\ ~ret'.audit[i].unlinked
                 /\ \E j \in 1..Len(ret'.logs) :
                      /\ ret'.logs[j].file = ret'.audit[i].file
                      /\ ret'.logs[j].valid
                      /\ ret'.logs[j].diff > 0
          /\ ret'.filesInvalidated = Cardinality(Removed(ret'.audit))]_vars

C15_Witness ==
  /\ ret.op = "invalidate"
  /\ Len(ret.audit) = 2
  /\ Unexpired(ret.audit[1].seen, ret.audit[1].at)
  /\ ret.audit[2].unlinked
  /\ ret.filesInvalidated = 1
  /\ disk[ret.audit[1].file] = ret.audit[1].seen
  /\ GetRead(disk[ret.audit[1].file]).outcome = "ok"

\* ---- C16
\* The files of a listing.
Listed(files) == {files[i] : i \in 1..Len(files)}

\* C16: a sweep or a flush acts on the files of the listing it took at its
\* start only: no step of a sweep, and no flush, changes a file that is not in
\* its listing, so what a get of such a file reads is as the concurrent set
\* left it; and the files a returning sweep treated are all of its listing.
C16_ListingSnapshot ==
  [][/\ \A s \in SweepSlots :
          (invs[s].pc \in {"inspect", "delete"} /\ invs'[s] # invs[s]) =>
            \A f \in FileNames \ Listed(invs[s].files) :
              disk'[f] = disk[f] /\ GetRead(disk'[f]) = GetRead(disk[f])
     /\ ret'.op \in {"invalidate", "flushAll", "flushByRegex"} =>
          \A f \in FileNames \ Listed(ret'.files) :
            disk'[f] = disk[f] /\ GetRead(disk'[f]) = GetRead(disk[f])
     /\ ret'.op = "invalidate" =>
          \A i \in 1..Len(ret'.audit) : ret'.audit[i].file \in Listed(ret'.files)]_vars

\* A sweep returns, having removed the file it listed, and a file that is not
\* in its listing holds the entry a set wrote meanwhile.
C16_Witness ==
  /\ ret.op = "invalidate"
  /\ Len(ret.files) = 1
  /\ ret.filesInvalidated = 1
  /\ \E f \in FileNames \ Listed(ret.files) :
       disk[f].kind = "json" /\ GetRead(disk[f]).outcome = "ok"

\* ---- C17
\* The sweep count the newest snapshot of a log records; 0 for the empty log.
LastCount(log) ==
  IF log = << >> THEN 0 ELSE log[Len(log)].endpointInvalidateRequestCount

\* C17: the snapshot a sweep appends records the number of sweeps completed up
\* to and including that one, also when sweeps overlap: a sweep that listed the
\* directory appends, where it returns, a snapshot that records one more than
\* the snapshot before it (the k-th records k), and returns that same count.
C17_SnapshotRecordsCompletedSweeps ==
  [][(ret'.op = "invalidate" /\ ret'.listed) =>
       /\ LastCount(logsOverTime') = LastCount(logsOverTime) + 1
       /\ ret'.endpointInvalidateRequestCount = LastCount(logsOverTime')]_vars

\* ---- C18
\* C18: when a set that gives no ttl returns, having written its file alone,
\* the entry has ttl = d * 1000 on an engine constructed with defaultTTL d >= 0
\* (and no expiration when d = 0), and ttl = 60000 on an engine constructed
\* without defaultTTL.
C18_DefaultTTLApplied ==
  (ret.op = "set" /\ ~ret.input.ttlGiven /\ ret.linked /\ ret.alone) =>
    /\ disk[ret.file].kind = "json"
    /\ disk[ret.file].ttl =
         (IF ret.input.engine[1] THEN ret.input.engine[2] * 1000 ELSE 60000)
    /\ (ret.input.engine[1] /\ ret.input.engine[2] = 0) =>
         disk[ret.file].expiration = Null

\* ---- C19
\* C19: the file a sweep deletes does not hold, at the moment of the deletion,
\* an unexpired entry written with ttl > 0: in particular not a fresh entry a
\* set wrote into it after the sweep's check of the file.
C19_FreshEntryNotSwept ==
  [][\A s \in SweepSlots :
       (invs[s].pc = "delete" /\ invs'[s] # invs[s]) =>
         LET f == NextFile(invs[s], disk)
         IN (disk[f].kind # "none" /\ disk'[f].kind = "none") => ~Unexpired(disk[f], now)]_vars

\* ---- C20
\* The files a step removes from the directory.
Vanishing == {f \in FileNames : disk[f].kind # "none" /\ disk'[f].kind = "none"}

\* The newest snapshot of the log is the one this returning sweep pushed.
OwnSnapshotLast(log, r, t) ==
  /\ log # << >>
  /\ log[Len(log)].id = t
  /\ log[Len(log)].bytes = r.bytes
  /\ log[Len(log)].endpointInvalidateRequestCount = r.endpointInvalidateRequestCount

\* C20: invalidate never raises: whatever it meets (the directory missing, a
\* file gone between listing and stat, a deletion that fails, a corrupt file),
\* each of its steps either goes on or returns a result; filesInvalidated grows
\* in a step by exactly the number of files the step removes, so the result's
\* filesInvalidated is the number of files the call removed; and where the call
\* returns, the log ends with the snapshot it appended.
C20_InvalidateNeverRaises ==
  [][/\ \A s \in SweepSlots :
          (invs[s].pc # "idle" /\ invs'[s] # invs[s]) =>
            LET after == IF invs'[s].pc = "idle" THEN ret'.filesInvalidated
                         ELSE invs'[s].filesInvalidated
            IN /\ after = invs[s].filesInvalidated + Cardinality(Vanishing)
               /\ invs'[s].pc = "idle" => (ret'.op = "invalidate" /\ ret'.slot = s)
     /\ \A s \in SweepSlots :
          SweepCalled(s) =>
            /\ Vanishing = {}
            /\ invs'[s].pc = "idle" => ret'.filesInvalidated = 0
     /\ ret'.op = "invalidate" =>
          /\ ret'.outcome = "returns"
          /\ ret'.filesInvalidated = Cardinality(Removed(ret'.audit))
          /\ Len(logsOverTime') = Len(logsOverTime) + 1
          /\ OwnSnapshotLast(logsOverTime', ret', now)]_vars

\* A sweep has returned after a deletion that failed and one that succeeded.
C20_Witness ==
  /\ ret.op = "invalidate"
  /\ ret.outcome = "returns"
  /\ Len(ret.audit) = 2
  /\ \E i \in 1..2 : ret.audit[i].threw /\ disk[ret.audit[i].file].kind # "none"
  /\ ret.filesInvalidated = 1
  /\ Len(ret.logs) = 1
  /\ OwnSnapshotLast(logsOverTime, ret, now)
====
